---------------------------- MODULE Spec2Model ----------------------------
(***************************************************************************)
(* A model of XraySubRefiner (cmd/xraysubrefiner/main.go): the per-source *)
(* normalization pipeline (payload decoding, line extraction, multi-URI   *)
(* splitting, scheme filtering, deduplication, the sorted and the tail    *)
(* projection) and the temp-file + rename writer with its retry loop.     *)
(*                                                                         *)
(* A Go string or []byte is a sequence of byte values (0..255); a Go      *)
(* index i (0-based) is position i+1 of the sequence.  The inputs are     *)
(* ASCII, where Go's strings.ToLower / TrimSpace act byte by byte.        *)
(***************************************************************************)
EXTENDS Integers, Sequences, FiniteSets, TLC

(***************************************************************************)
(* Bytes and string literals                                               *)
(***************************************************************************)

\* The printable ASCII characters in code order: 32 (space) .. 95 (_) and
\* 97 (a) .. 126 (~).  Code 96 cannot be written in a string literal.
PrintableLow ==
    " !\"#$%&'()*+,-./0123456789:;<=>?@ABCDEFGHIJKLMNOPQRSTUVWXYZ[\\]^_"
PrintableHigh == "abcdefghijklmnopqrstuvwxyz{|}~"

\* The byte value of a one-character string.
Code(ch) ==
    IF ch = "\n" THEN 10
    ELSE IF ch = "\r" THEN 13
    ELSE IF ch = "\t" THEN 9
    ELSE IF \E k \in 1..Len(PrintableLow) : SubSeq(PrintableLow, k, k) = ch
         THEN 31 + (CHOOSE k \in 1..Len(PrintableLow) : SubSeq(PrintableLow, k, k) = ch)
         ELSE 96 + (CHOOSE k \in 1..Len(PrintableHigh) : SubSeq(PrintableHigh, k, k) = ch)

\* The bytes of a string literal.
B(str) == [k \in 1..Len(str) |-> Code(SubSeq(str, k, k))]

\* The literals of the program.
SchemeSep == B("://")
LineFeed == B("\n")
CommentMarks == {B("#"), B("//"), B(";")}
DefaultSchemes == {B("vless"), B("vmess"), B("ss")}
BusyMarks == {B("used by another process"), B("access is denied"), B("sharing violation")}
DefaultName == B("default")

\* Go's s[lo:hi] and s[lo:].
Slice(s, lo, hi) == SubSeq(s, lo + 1, hi)
From(s, lo) == SubSeq(s, lo + 1, Len(s))

(***************************************************************************)
(* The standard-library functions the program calls                        *)
(***************************************************************************)

\* strings.HasPrefix
HasPrefix(s, p) == Len(s) >= Len(p) /\ SubSeq(s, 1, Len(p)) = p

\* strings.Index: the 0-based index of the first occurrence of sub, or -1.
Index(s, sub) ==
    LET hits == {k \in 0..(Len(s) - Len(sub)) : Slice(s, k, k + Len(sub)) = sub}
    IN  IF hits = {} THEN -1 ELSE CHOOSE k \in hits : \A j \in hits : k <= j

\* strings.Contains
Contains(s, sub) == Index(s, sub) >= 0

\* strings.Count for a non-empty sub: non-overlapping occurrences.
RECURSIVE Count(_, _)
Count(s, sub) ==
    LET k == Index(s, sub)
    IN  IF k < 0 THEN 0 ELSE 1 + Count(From(s, k + Len(sub)), sub)

\* unicode.IsSpace on ASCII: \t \n \v \f \r and space.
IsSpace(c) == c \in {9, 10, 11, 12, 13, 32}

\* strings.TrimSpace / bytes.TrimSpace
TrimSpace(s) ==
    LET keep == {k \in 1..Len(s) : ~IsSpace(s[k])}
    IN  IF keep = {} THEN <<>>
        ELSE SubSeq(s, CHOOSE k \in keep : \A j \in keep : k <= j,
                       CHOOSE k \in keep : \A j \in keep : k >= j)

\* strings.ToLower on ASCII: 'A'..'Z' become 'a'..'z'.
ToLower(s) == [k \in 1..Len(s) |-> IF s[k] >= 65 /\ s[k] <= 90 THEN s[k] + 32 ELSE s[k]]

\* strings.ReplaceAll(s, "\n", "")
RECURSIVE SelectBytes(_, _)
SelectBytes(s, drop) ==
    IF s = <<>> THEN <<>>
    ELSE IF Head(s) \in drop THEN SelectBytes(Tail(s), drop)
    ELSE <<Head(s)>> \o SelectBytes(Tail(s), drop)

\* strings.Join(lines, sep)
RECURSIVE Join(_, _)
Join(lines, sep) ==
    IF lines = <<>> THEN <<>>
    ELSE IF Len(lines) = 1 THEN lines[1]
    ELSE lines[1] \o sep \o Join(Tail(lines), sep)

\* strings.Split(s, sep) for a one-byte separator: always at least one piece.
RECURSIVE Split(_, _)
Split(s, sep) ==
    LET k == Index(s, <<sep>>)
    IN  IF k < 0 THEN <<s>> ELSE <<Slice(s, 0, k)>> \o Split(From(s, k + 1), sep)

\* Go's string comparison a < b: lexicographic on bytes.
RECURSIVE StrLess(_, _)
StrLess(a, b) ==
    IF b = <<>> THEN FALSE
    ELSE IF a = <<>> THEN TRUE
    ELSE IF Head(a) # Head(b) THEN Head(a) < Head(b)
    ELSE StrLess(Tail(a), Tail(b))

\* sort.Strings: the elements in non-decreasing byte order.  Element k goes
\* to the position given by the number of elements that come before it.
SortStrings(xs) ==
    LET n == Len(xs)
        rank == SubSeq([k \in 1..n |->
                    1 + Cardinality({j \in 1..n : StrLess(xs[j], xs[k]) \/ (xs[j] = xs[k] /\ j < k)})],
                    1, n)
    IN  [pos \in 1..n |-> xs[CHOOSE k \in 1..n : rank[k] = pos]]

(***************************************************************************)
(* encoding/base64, StdEncoding (padded, not strict)                       *)
(***************************************************************************)

\* The character of a 6-bit value: A-Z a-z 0-9 + /
B64Char(v) ==
    IF v < 26 THEN 65 + v
    ELSE IF v < 52 THEN 97 + (v - 26)
    ELSE IF v < 62 THEN 48 + (v - 52)
    ELSE IF v = 62 THEN 43 ELSE 47

\* The 6-bit value of a character, or -1 outside the alphabet.
B64Val(c) ==
    IF c >= 65 /\ c <= 90 THEN c - 65
    ELSE IF c >= 97 /\ c <= 122 THEN c - 97 + 26
    ELSE IF c >= 48 /\ c <= 57 THEN c - 48 + 52
    ELSE IF c = 43 THEN 62
    ELSE IF c = 47 THEN 63 ELSE -1

\* base64.StdEncoding.EncodeToString
RECURSIVE EncodeToString(_)
EncodeToString(src) ==
    IF src = <<>> THEN <<>>
    ELSE IF Len(src) = 1 THEN
        <<B64Char(src[1] \div 4), B64Char((src[1] % 4) * 16), 61, 61>>
    ELSE IF Len(src) = 2 THEN
        <<B64Char(src[1] \div 4), B64Char((src[1] % 4) * 16 + src[2] \div 16),
          B64Char((src[2] % 16) * 4), 61>>
    ELSE
        <<B64Char(src[1] \div 4), B64Char((src[1] % 4) * 16 + src[2] \div 16),
          B64Char((src[2] % 16) * 4 + src[3] \div 64), B64Char(src[3] % 64)>>
        \o EncodeToString(SubSeq(src, 4, Len(src)))

\* The quanta of a decoder input without its line breaks: full quanta of four
\* alphabet characters, the last one possibly xx== or xxx=; anything else
\* (a character outside the alphabet, misplaced or missing padding, trailing
\* data after the padding) is a CorruptInputError.
RECURSIVE DecodeQuanta(_)
DecodeQuanta(s) ==
    IF s = <<>> THEN [ok |-> TRUE, val |-> <<>>]
    ELSE IF Len(s) < 4 THEN [ok |-> FALSE, val |-> <<>>]
    ELSE
        LET a == B64Val(s[1])
            b == B64Val(s[2])
            c == B64Val(s[3])
            d == B64Val(s[4])
            b1 == a * 4 + b \div 16
            b2 == (b % 16) * 16 + c \div 4
            b3 == (c % 4) * 64 + d
        IN  IF a < 0 \/ b < 0 THEN [ok |-> FALSE, val |-> <<>>]
            ELSE IF s[3] = 61 THEN
                IF s[4] = 61 /\ Len(s) = 4 THEN [ok |-> TRUE, val |-> <<b1>>]
                ELSE [ok |-> FALSE, val |-> <<>>]
            ELSE IF c < 0 THEN [ok |-> FALSE, val |-> <<>>]
            ELSE IF s[4] = 61 THEN
                IF Len(s) = 4 THEN [ok |-> TRUE, val |-> <<b1, b2>>]
                ELSE [ok |-> FALSE, val |-> <<>>]
            ELSE IF d < 0 THEN [ok |-> FALSE, val |-> <<>>]
            ELSE
                LET rest == DecodeQuanta(SubSeq(s, 5, Len(s)))
                IN  [ok |-> rest.ok, val |-> IF rest.ok THEN <<b1, b2, b3>> \o rest.val ELSE <<>>]

\* base64.StdEncoding.DecodeString: \r and \n are skipped wherever they occur.
DecodeString(s) == DecodeQuanta(SelectBytes(s, {10, 13}))

(***************************************************************************)
(* The pipeline's functions                                                *)
(***************************************************************************)

\* rePossibleB64: ^[A-Za-z0-9+/=\r\n]+$
rePossibleB64(s) ==
    /\ Len(s) >= 1
    /\ \A k \in 1..Len(s) : B64Val(s[k]) >= 0 \/ s[k] \in {61, 13, 10}

\* reCommentLine: ^\s*(#|//|;).*$   (\s is [\t\n\f\r ]; . is any byte but \n)
reCommentLine(s) ==
    LET body == {k \in 1..Len(s) : s[k] \notin {9, 10, 12, 13, 32}}
        rest == IF body = {} THEN <<>>
                ELSE SubSeq(s, CHOOSE k \in body : \A j \in body : k <= j, Len(s))
    IN  /\ \E m \in CommentMarks : HasPrefix(rest, m)
        /\ \A k \in 1..Len(rest) : rest[k] # 10

\* The scheme substrings a decoded payload is looked through for.
KnownMarks == {B("vless://"), B("vmess://"), B("ss://")}

\* A variant that returns whatever decodes, without looking for a scheme.
tryDecodeAlways(b) ==
    LET trim == TrimSpace(b)
        dec1 == DecodeString(trim)
        dec2 == DecodeString(SelectBytes(trim, {10}))
        dec  == IF dec1.ok THEN dec1 ELSE dec2
    IN  IF Len(trim) = 0 THEN trim
        ELSE IF ~rePossibleB64(trim) THEN b
        ELSE IF ~dec.ok THEN b
        ELSE dec.val

tryDecodeIfBase64(b) ==
    LET trim == TrimSpace(b)
        dec1 == DecodeString(trim)
        dec2 == DecodeString(SelectBytes(trim, {10}))
        dec  == IF dec1.ok THEN dec1 ELSE dec2
        l    == ToLower(dec.val)
    IN  IF Len(trim) = 0 THEN trim
        ELSE IF ~rePossibleB64(trim) THEN b
        ELSE IF ~dec.ok THEN b
        ELSE IF \E m \in KnownMarks : Contains(l, m) THEN dec.val
        ELSE b

isSchemeChar(c) == (c >= 97 /\ c <= 122) \/ (c >= 65 /\ c <= 90)

\* The backward walk of splitPossible: from start down while cur[start] is a
\* scheme character; the index it stops at (-1 when it runs off the front).
RECURSIVE WalkBack(_, _)
WalkBack(cur, start) ==
    IF start >= 0 /\ isSchemeChar(cur[start + 1]) THEN WalkBack(cur, start - 1) ELSE start

\* The loop of splitPossible, from the state (cur, parts).
RECURSIVE SplitLoop(_, _)
SplitLoop(cur, parts) ==
    LET idx   == Index(cur, SchemeSep)
        start == WalkBack(cur, idx - 1) + 1
        rest  == From(cur, start)
        next  == Index(From(rest, 3), SchemeSep)
    IN  IF idx < 0 THEN parts
        ELSE IF next >= 0
             THEN SplitLoop(From(rest, next + 3), Append(parts, TrimSpace(Slice(rest, 0, next + 3))))
             ELSE Append(parts, TrimSpace(rest))

splitPossible(s) ==
    IF Count(s, SchemeSep) <= 1 THEN <<s>> ELSE SplitLoop(s, <<>>)

\* A variant that lowercases the whole entry.
normalizeSchemeAll(s) == ToLower(s)

normalizeScheme(s) ==
    LET idx == Index(s, SchemeSep)
    IN  IF idx < 0 THEN s ELSE ToLower(Slice(s, 0, idx)) \o From(s, idx)

\* bufio.ScanLines over the whole input: the text between line feeds, one
\* trailing \r dropped from each, no token for an empty remainder at the end.
dropCR(line) ==
    IF Len(line) > 0 /\ line[Len(line)] = 13 THEN SubSeq(line, 1, Len(line) - 1) ELSE line

RECURSIVE ScanLines(_)
ScanLines(data) ==
    LET k == Index(data, <<10>>)
    IN  IF data = <<>> THEN <<>>
        ELSE IF k >= 0 THEN <<dropCR(Slice(data, 0, k))>> \o ScanLines(From(data, k + 1))
        ELSE <<dropCR(data)>>

\* The scheme test of parseAndFilterLines (lines 186-196).
SchemeAllowed(it, allowed) ==
    \E sch \in allowed : HasPrefix(ToLower(it), sch \o SchemeSep)

\* The inner loop of parseAndFilterLines over the items of one line.
RECURSIVE FilterItems(_, _)
FilterItems(items, allowed) ==
    IF items = <<>> THEN <<>>
    ELSE
        LET it == TrimSpace(Head(items))
            rest == FilterItems(Tail(items), allowed)
        IN  IF it = <<>> \/ reCommentLine(it) THEN rest
            ELSE IF ~SchemeAllowed(it, allowed) THEN rest
            ELSE <<normalizeScheme(it)>> \o rest

\* The outer loop of parseAndFilterLines over the scanned lines.
RECURSIVE FilterLines(_, _)
FilterLines(lines, allowed) ==
    IF lines = <<>> THEN <<>>
    ELSE
        LET line == TrimSpace(Head(lines))
            rest == FilterLines(Tail(lines), allowed)
        IN  IF line = <<>> \/ reCommentLine(line) THEN rest
            ELSE FilterItems(splitPossible(line), allowed) \o rest

parseAndFilterLines(b, allowed) == FilterLines(ScanLines(b), allowed)

\* The loop of dedupe, from the state (in, seen, out).
RECURSIVE DedupeLoop(_, _, _)
DedupeLoop(in, seen, out) ==
    IF in = <<>> THEN out
    ELSE
        LET k == TrimSpace(Head(in))
        IN  IF k = <<>> \/ k \in seen THEN DedupeLoop(Tail(in), seen, out)
            ELSE DedupeLoop(Tail(in), seen \cup {k}, Append(out, k))

\* A variant whose seen-set holds the entries as given, not trimmed.
RECURSIVE DedupeRawLoop(_, _, _)
DedupeRawLoop(in, seen, out) ==
    IF in = <<>> THEN out
    ELSE
        LET k == TrimSpace(Head(in))
        IN  IF k = <<>> \/ Head(in) \in seen THEN DedupeRawLoop(Tail(in), seen, out)
            ELSE DedupeRawLoop(Tail(in), seen \cup {Head(in)}, Append(out, k))

dedupeRaw(in) == DedupeRawLoop(in, {}, <<>>)

dedupe(in) == DedupeLoop(in, {}, <<>>)

\* The allowed-scheme set main builds from the configuration (lines 66-74).
AllowedSet(schemes) ==
    LET given == {ToLower(TrimSpace(schemes[k])) : k \in 1..Len(schemes)}
    IN  IF given = {} THEN DefaultSchemes ELSE given

\* sanitizeFileName: the characters <>:"/\|?* and 0x00-0x1F become '_'.
sanitizeFileName(name) ==
    LET trimmed == TrimSpace(name)
        invalid == {60, 62, 58, 34, 47, 92, 124, 63, 42} \cup 0..31
        clean == [k \in 1..Len(trimmed) |-> IF trimmed[k] \in invalid THEN 95 ELSE trimmed[k]]
    IN  IF clean = <<>> THEN DefaultName ELSE clean

(***************************************************************************)
(* Slices of strings over a heap of backing arrays                         *)
(*                                                                         *)
(* heap is the sequence of the []string backing arrays allocated so far;   *)
(* a slice is [arr |-> its array, lo |-> its offset, n |-> its length].    *)
(***************************************************************************)

View(h, sl) == SubSeq(h[sl.arr], sl.lo + 1, sl.lo + sl.n)

\* A new backing array holding xs, and the slice over all of it.
Alloc(h, xs) == [heap |-> Append(h, xs), ret |-> [arr |-> Len(h) + 1, lo |-> 0, n |-> Len(xs)]]

\* sort.Strings(sl): the elements of the slice are reordered in their array.
SortInPlace(h, sl) ==
    [h EXCEPT ![sl.arr] = SubSeq(@, 1, sl.lo) \o SortStrings(View(h, sl))
                          \o SubSeq(@, sl.lo + sl.n + 1, Len(@))]

\* The tail size used when n <= 0.
DefaultTail == 100

\* A variant that returns normal[start:] itself, a slice of normal's array.
buildLiteTailAlias(h, normal, n) ==
    LET n1 == IF n <= 0 THEN DefaultTail ELSE n
        n2 == IF n1 > normal.n THEN normal.n ELSE n1
    IN  [heap |-> h, ret |-> [arr |-> normal.arr, lo |-> normal.lo + (normal.n - n2), n |-> n2]]

\* buildLiteTail: append([]string(nil), normal[start:]...) is a fresh array.
buildLiteTail(h, normal, n) ==
    LET n1 == IF n <= 0 THEN DefaultTail ELSE n
        n2 == IF n1 > normal.n THEN normal.n ELSE n1
        start == normal.n - n2
    IN  Alloc(h, SubSeq(View(h, normal), start + 1, normal.n))

\* A variant that sorts the caller's slice where it is.
writeBase64SortedInPlace(h, lines) == [heap |-> SortInPlace(h, lines), ret |-> lines]

\* writeBase64Sorted, lines 293-294: cp is a fresh copy, sorted in its array;
\* ret is the slice handed to writeBase64Atomic.
writeBase64Sorted(h, lines) ==
    LET cp == Alloc(h, View(h, lines))
    IN  [heap |-> SortInPlace(cp.heap, cp.ret), ret |-> cp.ret]

\* writeBase64NoSort: the slice is handed to writeBase64Atomic as it is.
writeBase64NoSort(h, lines) == [heap |-> h, ret |-> lines]

\* writeBase64Atomic, lines 306-307: the text that goes into the file.
Payload(lines) == EncodeToString(Join(lines, LineFeed))

(***************************************************************************)
(* The file system and the writer's constants                              *)
(*                                                                         *)
(* fs maps each existing path to its file, [data |-> the bytes it holds,   *)
(* want |-> the bytes its writer set out to put there]; a file is          *)
(* partially written while data # want.                                    *)
(***************************************************************************)

Put(f, p, file) == [q \in (DOMAIN f) \cup {p} |-> IF q = p THEN file ELSE f[q]]
Del(f, p) == [q \in (DOMAIN f) \ {p} |-> f[q]]

\* filepath.Join(keyDir, name)
FilePath(dir, name) == <<dir, name>>

\* A variant that writes straight to the final path.
TempNameSame(p, f) == p

\* os.CreateTemp(dir, base+".*.tmp"): a name in the directory of path that no
\* file of f has; the random part of the name is a number here.
TempName(p, f) ==
    LET free == {k \in 1..(Cardinality(DOMAIN f) + 1) : <<p[1], p[2], k>> \notin DOMAIN f}
    IN  <<p[1], p[2], CHOOSE k \in free : \A j \in free : k <= j>>

\* bufio.Writer's buffer size (4096 in the library), scaled to the payloads.
BufSize == 8

maxRetries == 6

\* The messages os.Rename's error can carry (Windows and POSIX).
RenameErrors ==
    { B("Access is denied."), B("used by another process"),
      B("sharing violation"), B("permission denied") }

\* The error of renaming a source that is not there.
NotExist == B("no such file or directory")

\* A variant that takes every rename error for a busy one.
busyAny(err) == TRUE

\* lines 337-340: the busy/locked class of rename failures.
busy(err) ==
    LET lower == ToLower(err)
    IN  \E m \in BusyMarks : Contains(lower, m)

\* A variant that treats a fetch error like the other errors: must(err).
OnFetchErrorFatal(i, count) == [pc |-> "fatal", idx |-> i]

\* lines 79-82: after a fetch error main logs it and continues with the next
\* subscription; the next program position and loop index.
OnFetchError(i, count) ==
    [pc |-> IF i + 1 > count THEN "done" ELSE "fetch", idx |-> i + 1]

(***************************************************************************)
(* State                                                                   *)
(***************************************************************************)

VARIABLES
    subs,       \* cfg.Subscriptions: the keys, in configuration order
    schemes,    \* cfg.AllowedSchemes
    pc,         \* the caller's position (main, or the harness of a specification)
    idx,        \* main's loop position in subs (1-based)
    outcomes,   \* per subscription visited so far, "ok" or "fail" of its fetch
    wrote,      \* the writes that returned nil, as <<subscription, file name>>
    dirs,       \* the output directories that exist
    fs0,        \* the files that existed when the run began
    heap,       \* backing arrays of the []string slices
    normal,     \* main's normal (a slice)
    lite,       \* main's lite (a slice)
    tailN,      \* the n handed to buildLiteTail
    fs,         \* the files that exist
    wpc,        \* writeBase64Atomic's position
    path,       \* its path argument
    lines,      \* its lines argument (a slice)
    encoded,    \* its local encoded
    tmpPath,    \* its local tmpPath
    try,        \* its loop counter i
    lastErr,    \* the error of its latest os.Rename, <<>> for none
    delay,      \* the milliseconds of its latest time.Sleep
    werr,       \* what it returned: "nil" or the failing step
    before,     \* the file at path when it was called, <<>> for none
    cleaned,    \* its os.Remove(tmpPath): "none", "removed" or "failed"
    calls,      \* calls of writeBase64Atomic started so far
    arg,        \* the input of a function applied on its own
    res         \* its result

mainVars == <<subs, schemes, idx, outcomes, wrote, dirs, fs0>>
heapVars == <<heap, normal, lite, tailN>>
writerVars == <<fs, wpc, path, lines, encoded, tmpPath, try, lastErr, delay, werr, before, cleaned, calls>>
fnVars == <<arg, res>>
vars == <<mainVars, pc, heapVars, writerVars, fnVars>>

NoSlice == [arr |-> 0, lo |-> 0, n |-> 0]
NoFiles == [q \in {} |-> <<>>]

MainIdle ==
    /\ subs = <<>> /\ schemes = <<>> /\ idx = 0
    /\ outcomes = <<>> /\ wrote = <<>> /\ dirs = {} /\ fs0 = NoFiles

HeapIdle == heap = <<>> /\ normal = NoSlice /\ lite = NoSlice /\ tailN = 0

WriterIdle ==
    /\ wpc = "idle" /\ path = <<>> /\ lines = NoSlice
    /\ encoded = <<>> /\ tmpPath = <<>> /\ try = 0 /\ lastErr = <<>>
    /\ delay = 0 /\ werr = "nil" /\ before = <<>> /\ cleaned = "none" /\ calls = 0
    /\ fs = fs0

FnIdle == arg = <<>> /\ res = <<>>

(***************************************************************************)
(* writeBase64Atomic, step by step                                         *)
(***************************************************************************)

\* The call: payload and encoded are computed (lines 306-307).
Enter(p, sl, h) ==
    /\ wpc' = "create"
    /\ path' = p
    /\ lines' = sl
    /\ encoded' = Payload(View(h, sl))
    /\ before' = IF p \in DOMAIN fs THEN <<fs[p]>> ELSE <<>>
    /\ calls' = calls + 1
    /\ tmpPath' = <<>> /\ try' = 0 /\ lastErr' = <<>> /\ delay' = 0 /\ werr' = "nil"
    /\ cleaned' = "none"
    /\ UNCHANGED fs

\* The return to the caller: the call's locals are gone.
Leave ==
    /\ wpc' = "idle"
    /\ path' = <<>> /\ lines' = NoSlice /\ encoded' = <<>> /\ tmpPath' = <<>>
    /\ try' = 0 /\ lastErr' = <<>> /\ delay' = 0 /\ werr' = "nil" /\ before' = <<>>
    /\ cleaned' = "none"
    /\ UNCHANGED <<fs, calls>>

\* What every failure after the temporary file exists does: os.Remove(tmpPath),
\* its error discarded, and return the step's error.  The removal takes the
\* file away, or fails and leaves it where it is.
FailWith(step) ==
    /\ \/ fs' = Del(fs, tmpPath) /\ cleaned' = "removed"
       \/ tmpPath \in DOMAIN fs /\ UNCHANGED fs /\ cleaned' = "failed"
    /\ wpc' = "ret"
    /\ werr' = step

\* lines 311-315: os.CreateTemp.
CreateTemp ==
    /\ wpc = "create"
    /\ \/ /\ tmpPath' = TempName(path, fs)
          /\ fs' = Put(fs, TempName(path, fs), [data |-> <<>>, want |-> encoded])
          /\ wpc' = "write"
          /\ UNCHANGED werr
       \/ /\ wpc' = "ret"
          /\ werr' = "create"
          /\ UNCHANGED <<fs, tmpPath>>
    /\ UNCHANGED <<path, lines, encoded, try, lastErr, delay, before, cleaned, calls>>
    /\ UNCHANGED <<mainVars, pc, heapVars, fnVars>>

Remaining == Len(encoded) - Len(fs[tmpPath].data)

AppendData(k) ==
    LET done == Len(fs[tmpPath].data)
    IN  Put(fs, tmpPath, [fs[tmpPath] EXCEPT !.data = @ \o SubSeq(encoded, done + 1, done + k)])

\* lines 318-322: w.WriteString hands a full buffer to the file each time the
\* rest of the text does not fit the buffer.
WriteString ==
    /\ wpc = "write"
    /\ Remaining > BufSize
    /\ \/ fs' = AppendData(BufSize) /\ UNCHANGED <<wpc, werr, cleaned>>
       \/ FailWith("write")
    /\ UNCHANGED <<path, lines, encoded, tmpPath, try, lastErr, delay, before, calls>>
    /\ UNCHANGED <<mainVars, pc, heapVars, fnVars>>

\* lines 323-327: w.Flush hands over what the buffer still holds.
Flush ==
    /\ wpc = "write"
    /\ Remaining <= BufSize
    /\ \/ fs' = AppendData(Remaining) /\ wpc' = "close" /\ UNCHANGED <<werr, cleaned>>
       \/ Remaining > 0 /\ FailWith("flush")
    /\ UNCHANGED <<path, lines, encoded, tmpPath, try, lastErr, delay, before, calls>>
    /\ UNCHANGED <<mainVars, pc, heapVars, fnVars>>

\* lines 328-331: tmpFile.Close, then the retry loop starts with i = 0.
Close ==
    /\ wpc = "close"
    /\ \/ wpc' = "remove" /\ UNCHANGED <<fs, werr, cleaned>>
       \/ FailWith("close")
    /\ UNCHANGED <<path, lines, encoded, tmpPath, try, lastErr, delay, before, calls>>
    /\ UNCHANGED <<mainVars, pc, heapVars, fnVars>>

\* line 335: os.Remove(path), its error ignored: the target is removed, or it
\* is not there, or it stays because the removal failed.
RemoveTarget ==
    /\ wpc = "remove"
    /\ \/ fs' = Del(fs, path)
       \/ path \in DOMAIN fs /\ UNCHANGED fs
    /\ wpc' = "rename"
    /\ UNCHANGED <<path, lines, encoded, tmpPath, try, lastErr, delay, werr, before, cleaned, calls>>
    /\ UNCHANGED <<mainVars, pc, heapVars, fnVars>>

\* lines 336-348: os.Rename(tmpPath, path) and what follows it.
RenameFailed(err) ==
    /\ lastErr' = err
    /\ IF busy(err) /\ try < maxRetries - 1
       THEN wpc' = "sleep" /\ UNCHANGED <<fs, werr, cleaned>>
       ELSE FailWith("rename")

Rename ==
    /\ wpc = "rename"
    /\ \/ /\ tmpPath \in DOMAIN fs
          /\ fs' = Put(Del(fs, tmpPath), path, fs[tmpPath])
          /\ wpc' = "ret"
          /\ werr' = "nil"
          /\ UNCHANGED <<lastErr, cleaned>>
       \/ /\ tmpPath \in DOMAIN fs
          /\ \E err \in RenameErrors : RenameFailed(err)
       \/ /\ tmpPath \notin DOMAIN fs
          /\ RenameFailed(NotExist)
    /\ UNCHANGED <<path, lines, encoded, tmpPath, try, delay, before, calls>>
    /\ UNCHANGED <<mainVars, pc, heapVars, fnVars>>

\* lines 342-343 and the loop header: sleep 200ms * (i+1), continue, i++, and
\* the test i < maxRetries; lines 350-351 when it fails.
Backoff ==
    /\ wpc = "sleep"
    /\ delay' = 200 * (try + 1)
    /\ try' = try + 1
    /\ IF try + 1 < maxRetries
       THEN wpc' = "remove" /\ UNCHANGED <<fs, werr, cleaned>>
       ELSE FailWith("retries")
    /\ UNCHANGED <<path, lines, encoded, tmpPath, lastErr, before, calls>>
    /\ UNCHANGED <<mainVars, pc, heapVars, fnVars>>

WriterStep == CreateTemp \/ WriteString \/ Flush \/ Close \/ RemoveTarget \/ Rename \/ Backoff

(***************************************************************************)
(* Bounded input sets                                                      *)
(***************************************************************************)

\* All sequences over S of length at most n.
RECURSIVE SeqsUpTo(_, _)
SeqsUpTo(S, n) ==
    IF n = 0 THEN {<<>>}
    ELSE LET shorter == SeqsUpTo(S, n - 1)
         IN  shorter \cup {Append(s, e) : s \in shorter, e \in S}

NoRepeat(s) == \A a, b \in 1..Len(s) : a # b => s[a] # s[b]

MaxSubs == 3
MaxCalls == 2
MaxList == 3
MaxTokens == 4
MaxDedupe == 3
MaxSegs == 2
MaxBlocks == 3

\* Subscription keys: two of them name the same directory once sanitized.
Keys == {B("k"), B(" k"), B("k:")}

\* cfg.AllowedSchemes as configured: absent, or given with case and blanks.
SchemeConfigs == {<<>>, <<B(" SS "), B("Vmess")>>}

\* What a fetch can return: plain text, a base64 blob, a text of comments.
FetchBodies ==
    { B("ss://b\nSS://a\nss://b"), EncodeToString(B("vless://x")), B("# none") }

\* Entries of a normal list, and the normal lists made of them.
Entries == {B("ss://b"), B("ss://B"), B("ss://a")}
NormalLists == {s \in SeqsUpTo(Entries, MaxList) : NoRepeat(s)}

\* A normal list of len entries in descending order, longer than the tail.
LongList(len) ==
    [k \in 1..len |-> B("ss://") \o <<48 + ((len - k) \div 100),
                                      48 + (((len - k) \div 10) % 10),
                                      48 + ((len - k) % 10)>>]

TailLists == NormalLists \cup {LongList(DefaultTail - 1 + k) : k \in 0..2}
TailSizes == {-1, 0, 1, 2, MaxList, DefaultTail - 1, DefaultTail, DefaultTail + 1}

\* Lines for the splitter: up to MaxTokens pieces put side by side.
SplitTokens == {B("ab"), B("://"), B(" "), B("X")}
SplitInputs ==
    {Join(s, <<>>) : s \in SeqsUpTo(SplitTokens, MaxTokens)}
    \cup {B("vless://A vmess://B")}

\* Inputs of dedupe.
DedupeItems == {B("a"), B(" a"), B("a "), B("b"), B(""), B(" ")}
DedupeInputs == SeqsUpTo(DedupeItems, MaxDedupe)

\* Segments for the scheme filter.
Segments ==
    { B("ss://A"), B("SS://a"), B("Ss://a://B"), B("vmess://X y"), B("VLESS://q"),
      B("trojan://t"), B("ss:/x"), B("ssx://y"), B("://z"), B("ss"), B("xss://A") }
FilterInputs ==
    {[items |-> s, schemes |-> c] :
        s \in SeqsUpTo(Segments, MaxSegs), c \in SchemeConfigs \cup {<<B("trojan"), B("ss")>>}}

\* Payloads for the decoder: up to MaxBlocks pieces put side by side.
DecodeBlocks ==
    { B("c3M6"), B("Ly9h"), B("Ly8="), B("U1M6"), B("YQ=="), B("aGVs"), B("\n"), B(" "), B("ss://") }
DecodeInputs ==
    {Join(s, <<>>) : s \in SeqsUpTo(DecodeBlocks, MaxBlocks)}
    \cup {B("aGVsbG8gd29ybGQ="), EncodeToString(B("a://\nVMess://b")), EncodeToString(B("xvLeSs://"))}

(***************************************************************************)
(* main: the loop over the subscriptions (lines 76-102)                    *)
(***************************************************************************)

keyDir(i) == sanitizeFileName(subs[i])

\* A complete file holding the payload of the list xs.
FileOf(xs) == [data |-> Payload(xs), want |-> Payload(xs)]

\* The export of an earlier run: normal and lite of every configured key.
OldEntries == <<B("ss://old")>>
PrevExport(keys) ==
    [q \in {FilePath(sanitizeFileName(keys[i]), name) :
                i \in 1..Len(keys), name \in {"normal", "lite"}} |-> FileOf(OldEntries)]

Init ==
    /\ subs \in {s \in SeqsUpTo(Keys, MaxSubs) : NoRepeat(s)}
    /\ schemes \in SchemeConfigs
    /\ idx = 1
    /\ pc = IF subs = <<>> THEN "done" ELSE "fetch"
    /\ outcomes = <<>> /\ wrote = <<>>
    /\ fs0 \in {NoFiles, PrevExport(subs)}
    /\ dirs = {p[1] : p \in DOMAIN fs0}
    /\ HeapIdle /\ WriterIdle /\ FnIdle

\* lines 78-82: fetch returns an error (transport error or status # 200).
FetchError ==
    /\ pc = "fetch"
    /\ outcomes' = Append(outcomes, "fail")
    /\ pc' = OnFetchError(idx, Len(subs)).pc
    /\ idx' = OnFetchError(idx, Len(subs)).idx
    /\ UNCHANGED <<subs, schemes, wrote, dirs, fs0, heapVars, writerVars, fnVars>>

\* lines 78-88: fetch returns a body; decode, parse, filter, dedupe, tail.
FetchOk ==
    /\ pc = "fetch"
    /\ \E raw \in FetchBodies :
          LET decoded == tryDecodeIfBase64(raw)
              valid == parseAndFilterLines(decoded, AllowedSet(schemes))
              n == Alloc(<<>>, dedupe(valid))
              l == buildLiteTail(n.heap, n.ret, DefaultTail)
          IN  /\ normal' = n.ret
              /\ lite' = l.ret
              /\ heap' = l.heap
    /\ outcomes' = Append(outcomes, "ok")
    /\ pc' = "mkdir"
    /\ UNCHANGED <<subs, schemes, idx, wrote, dirs, fs0, tailN, writerVars, fnVars>>

\* lines 90-93: os.MkdirAll(keyDir); an error is fatal.
MkdirAll ==
    /\ pc = "mkdir"
    /\ \/ dirs' = dirs \cup {keyDir(idx)} /\ pc' = "normal"
       \/ pc' = "fatalMkdir" /\ UNCHANGED dirs
    /\ UNCHANGED <<subs, schemes, idx, outcomes, wrote, fs0, heapVars, writerVars, fnVars>>

\* line 96: the call of writeBase64Sorted(keyDir/normal, normal).
WriteNormal ==
    /\ pc = "normal"
    /\ LET r == writeBase64Sorted(heap, normal)
       IN  /\ heap' = r.heap
           /\ Enter(FilePath(keyDir(idx), "normal"), r.ret, r.heap)
    /\ pc' = "normalRet"
    /\ UNCHANGED <<mainVars, normal, lite, tailN, fnVars>>

\* lines 96-98: its return; an error is fatal.
NormalReturned ==
    /\ pc = "normalRet" /\ wpc = "ret"
    /\ Leave
    /\ IF werr = "nil"
       THEN pc' = "lite" /\ wrote' = Append(wrote, <<idx, "normal">>)
       ELSE pc' = "fatal" /\ UNCHANGED wrote
    /\ UNCHANGED <<subs, schemes, idx, outcomes, dirs, fs0, heapVars, fnVars>>

\* line 99: the call of writeBase64NoSort(keyDir/lite, lite).
WriteLite ==
    /\ pc = "lite"
    /\ LET r == writeBase64NoSort(heap, lite)
       IN  /\ heap' = r.heap
           /\ Enter(FilePath(keyDir(idx), "lite"), r.ret, r.heap)
    /\ pc' = "liteRet"
    /\ UNCHANGED <<mainVars, normal, lite, tailN, fnVars>>

\* lines 99-102: its return; an error is fatal, else the loop goes on.
LiteReturned ==
    /\ pc = "liteRet" /\ wpc = "ret"
    /\ Leave
    /\ IF werr = "nil"
       THEN /\ wrote' = Append(wrote, <<idx, "lite">>)
            /\ idx' = idx + 1
            /\ pc' = IF idx + 1 > Len(subs) THEN "done" ELSE "fetch"
       ELSE pc' = "fatal" /\ UNCHANGED <<wrote, idx>>
    /\ UNCHANGED <<subs, schemes, outcomes, dirs, fs0, heapVars, fnVars>>

Next ==
    \/ FetchError \/ FetchOk \/ MkdirAll
    \/ WriteNormal \/ NormalReturned \/ WriteLite \/ LiteReturned
    \/ CreateTemp \/ WriteString \/ Flush \/ Close \/ RemoveTarget \/ Rename \/ Backoff

Spec == Init /\ [][Next]_vars

(***************************************************************************)
(* The writer on its own: successive runs' writes of one normal file       *)
(***************************************************************************)

WritePath == FilePath(B("k"), "normal")

WriteInit ==
    /\ MainIdle /\ HeapIdle /\ WriterIdle /\ FnIdle
    /\ pc = "call"

\* A run reaches line 96 with some normal list: writeBase64Sorted(path, normal).
CallSorted ==
    /\ pc = "call" /\ wpc = "idle"
    /\ calls < MaxCalls
    /\ \E list \in NormalLists :
          LET n == Alloc(<<>>, list)
              r == writeBase64Sorted(n.heap, n.ret)
          IN  /\ arg' = list
              /\ normal' = n.ret
              /\ heap' = r.heap
              /\ Enter(WritePath, r.ret, r.heap)
    /\ pc' = "wait"
    /\ UNCHANGED <<mainVars, lite, tailN, res>>

Returned ==
    /\ pc = "wait" /\ wpc = "ret"
    /\ Leave
    /\ pc' = "call"
    /\ UNCHANGED <<mainVars, heapVars, fnVars>>

WriteNext ==
    \/ CallSorted \/ Returned
    \/ CreateTemp \/ WriteString \/ Flush \/ Close \/ RemoveTarget \/ Rename \/ Backoff

WriteSpec == WriteInit /\ [][WriteNext]_vars

\* One write, over nothing or over the normal file of an earlier run.
RetryInit ==
    /\ subs = <<>> /\ schemes = <<>> /\ idx = 0
    /\ outcomes = <<>> /\ wrote = <<>> /\ dirs = {}
    /\ fs0 \in {NoFiles, PrevExport(<<B("k")>>)}
    /\ HeapIdle /\ WriterIdle /\ FnIdle
    /\ pc = "call"

CallOnce == calls = 0 /\ CallSorted

RetryNext ==
    \/ CallOnce \/ Returned
    \/ CreateTemp \/ WriteString \/ Flush \/ Close \/ RemoveTarget \/ Rename \/ Backoff

\* The process that runs the write keeps running.
RetryFair == RetryInit /\ [][RetryNext]_vars /\ WF_vars(RetryNext)

(***************************************************************************)
(* The tail projection on its own (lines 88 and 293-294)                   *)
(***************************************************************************)

TailInit ==
    /\ MainIdle /\ WriterIdle /\ res = <<>>
    /\ pc = "tail"
    /\ arg \in TailLists
    /\ heap = <<arg>>
    /\ normal = [arr |-> 1, lo |-> 0, n |-> Len(arg)]
    /\ lite = NoSlice
    /\ tailN \in TailSizes

\* lite := buildLiteTail(normal, n)
ApplyTail ==
    /\ pc = "tail"
    /\ LET r == buildLiteTail(heap, normal, tailN)
       IN  heap' = r.heap /\ lite' = r.ret
    /\ pc' = "sort"
    /\ UNCHANGED <<mainVars, normal, tailN, writerVars, fnVars>>

\* The sorting for the normal output: writeBase64Sorted's copy and sort.
SortNormal ==
    /\ pc = "sort"
    /\ heap' = writeBase64Sorted(heap, normal).heap
    /\ pc' = "sorted"
    /\ UNCHANGED <<mainVars, normal, lite, tailN, writerVars, fnVars>>

TailNext == ApplyTail \/ SortNormal

TailSpec == TailInit /\ [][TailNext]_vars

(***************************************************************************)
(* The pure functions on their own                                         *)
(***************************************************************************)

FnInit(inputs) ==
    /\ MainIdle /\ HeapIdle /\ WriterIdle
    /\ pc = "apply"
    /\ arg \in inputs
    /\ res = <<>>

Applied(result) ==
    /\ pc = "apply"
    /\ res' = result
    /\ pc' = "applied"
    /\ UNCHANGED <<mainVars, heapVars, writerVars, arg>>

ApplySplit == Applied(splitPossible(arg))
SplitSpec == FnInit(SplitInputs) /\ [][ApplySplit]_vars

ApplyDedupe == Applied(dedupe(arg))
DedupeSpec == FnInit(DedupeInputs) /\ [][ApplyDedupe]_vars

ApplyFilter == Applied(FilterItems(arg.items, AllowedSet(arg.schemes)))
FilterSpec == FnInit(FilterInputs) /\ [][ApplyFilter]_vars

ApplyDecode == Applied(tryDecodeIfBase64(arg))
DecodeSpec == FnInit(DecodeInputs) /\ [][ApplyDecode]_vars

(***************************************************************************)
(* Properties                                                              *)
(***************************************************************************)

IsPrefix(s, u) == Len(s) <= Len(u) /\ SubSeq(u, 1, Len(s)) = s

Occurrences(xs, v) == Cardinality({k \in 1..Len(xs) : xs[k] = v})

SameBag(xs, ys) ==
    /\ Len(xs) = Len(ys)
    /\ \A k \in 1..Len(xs) : Occurrences(xs, xs[k]) = Occurrences(ys, xs[k])

NonDecreasing(xs) == \A k \in 1..(Len(xs) - 1) : ~StrLess(xs[k + 1], xs[k])

IsLetter(c) == (c >= 65 /\ c <= 90) \/ (c >= 97 /\ c <= 122)

LowerByte(c) == IF c >= 65 /\ c <= 90 THEN c + 32 ELSE c

\* ---- C1 ----------------------------------------------------------------

\* The 0-based positions of "://" in s.
SepAt(s) == {k \in 0..(Len(s) - 3) : Slice(s, k, k + 3) = SchemeSep}

\* The start of the scheme token that ends at position k: the walk backward
\* from k over ASCII letters.
SchemeStartOf(s, k) ==
    CHOOSE q \in 0..k :
        /\ \A j \in q..(k - 1) : IsLetter(s[j + 1])
        /\ q = 0 \/ ~IsLetter(s[q])

SchemeStarts(s) == {SchemeStartOf(s, k) : k \in SepAt(s)}

\* One segment per scheme start, up to the next scheme start or the end.
RECURSIVE SegmentsFrom(_, _)
SegmentsFrom(s, starts) ==
    IF starts = {} THEN <<>>
    ELSE
        LET q == CHOOSE a \in starts : \A b \in starts : a <= b
            later == starts \ {q}
            stop == IF later = {} THEN Len(s) ELSE CHOOSE a \in later : \A b \in later : a <= b
        IN  <<TrimSpace(Slice(s, q, stop))>> \o SegmentsFrom(s, later)

\* C1: a line holding "://" more than once is split into one segment per
\* scheme start, each running from its scheme start to just before the next
\* scheme start (or the end of the line); "vless://A vmess://B" gives
\* "vless://A" and "vmess://B", and both pass the default scheme filter.
SplitsAtSchemeStarts ==
    (pc = "applied" /\ Cardinality(SepAt(arg)) > 1) =>
        /\ res = SegmentsFrom(arg, SchemeStarts(arg))
        /\ arg = B("vless://A vmess://B") =>
              /\ res = <<B("vless://A"), B("vmess://B")>>
              /\ FilterItems(res, DefaultSchemes) = res

\* ---- C2 ----------------------------------------------------------------

\* C2 as stated: across two successive writes of different content to one
\* path, the file at the final path is never zero-byte and never partially
\* written.
NeverZeroByteOrPartial ==
    (calls >= 2 /\ before # <<>> /\ before[1].data # encoded /\ path \in DOMAIN fs) =>
        /\ fs[path].data = fs[path].want
        /\ fs[path].data # <<>>

\* C2 as amended: the file at a final path is never partially written; while
\* a write is under way its path is absent or holds in full either what it
\* held before the call or the new payload, so it is zero-byte only when that
\* whole payload is empty (the payload of an empty list).
NoPartialFile ==
    /\ \A p \in DOMAIN fs : Len(p) = 2 => fs[p].data = fs[p].want
    /\ (wpc # "idle" /\ path \in DOMAIN fs) =>
          \/ before # <<>> /\ fs[path] = before[1]
          \/ fs[path].data = encoded

\* The second write of a different content is retrying its rename while the
\* path still holds the first content.
RetryOverOldFile ==
    /\ calls >= 2 /\ wpc = "rename" /\ try >= 1
    /\ before # <<>> /\ before[1].data # encoded
    /\ path \in DOMAIN fs
    /\ tmpPath \in DOMAIN fs

\* ---- C3 ----------------------------------------------------------------

BusyClass == {B("Access is denied."), B("used by another process"), B("sharing violation")}

\* What C3 says of every state of a write but for the temporary file of a
\* failed one.
RetryInv ==
    \* at most 6 rename attempts: attempt number try + 1
    /\ try + 1 <= 6
    \* a retry follows only a busy-class failure, after 200ms * attempt number
    /\ (wpc \in {"remove", "rename"} /\ try > 0) => (lastErr \in BusyClass /\ delay = 200 * try)
    /\ wpc = "sleep" => (lastErr \in BusyClass /\ try + 1 < 6)
    \* the loop goes on only while no rename has succeeded
    /\ wpc \in {"remove", "rename", "sleep"} => tmpPath \in DOMAIN fs
    \* success: the first successful rename has put the payload at the path
    /\ (wpc = "ret" /\ werr = "nil") =>
          (path \in DOMAIN fs /\ fs[path].data = encoded /\ tmpPath \notin DOMAIN fs)
    \* failure: the 6th attempt failed or the error was not retryable
    /\ (wpc = "ret" /\ werr = "rename") =>
          (lastErr # <<>> /\ (try + 1 = 6 \/ lastErr \notin BusyClass))
    /\ werr # "retries"

\* A write that returned a rename error has no temporary file left.
TempGone == (wpc = "ret" /\ werr = "rename") => tmpPath \notin DOMAIN fs

\* A write that returned a rename error has called os.Remove(tmpPath); the
\* temporary file is gone when that removal succeeded, and is still there,
\* holding the whole payload, when it failed.
TempRemovalTried ==
    (wpc = "ret" /\ werr = "rename") =>
        /\ cleaned \in {"removed", "failed"}
        /\ cleaned = "removed" => tmpPath \notin DOMAIN fs
        /\ cleaned = "failed" => (tmpPath \in DOMAIN fs /\ fs[tmpPath].data = encoded)

\* C3 as stated: the replace step retries busy-class rename failures, with a
\* backoff of 200ms times the attempt number, for at most 6 attempts; it
\* returns success at the first successful rename and an error at the 6th
\* failure or at the first non-retryable one, and then the temporary file no
\* longer exists; and every write returns.
BoundedRetryTempGone ==
    /\ [](RetryInv /\ TempGone)
    /\ (wpc \notin {"idle", "ret"}) ~> (wpc = "ret")

\* C3 as amended: the same retry policy and termination, but on a failed
\* write the removal of the temporary file is only attempted: its error is
\* discarded, so the temporary file is gone unless that removal failed.
BoundedRetry ==
    /\ [](RetryInv /\ TempRemovalTried)
    /\ (wpc \notin {"idle", "ret"}) ~> (wpc = "ret")

\* The 6th rename attempt has failed with a busy-class error, and the removal
\* of the temporary file has failed as well.
SixthAttemptFailed ==
    /\ wpc = "ret" /\ werr = "rename" /\ try + 1 = 6 /\ lastErr \in BusyClass /\ delay = 1000
    /\ cleaned = "failed" /\ tmpPath \in DOMAIN fs

\* ---- C4 ----------------------------------------------------------------

\* The writes a run makes for the fetch outcomes o, in order.
RECURSIVE ExpectedWrites(_, _)
ExpectedWrites(o, i) ==
    IF i > Len(o) THEN <<>>
    ELSE (IF o[i] = "ok" THEN <<<<i, "normal">>, <<i, "lite">>>> ELSE <<>>)
         \o ExpectedWrites(o, i + 1)

\* The subscriptions visited so far whose fetch succeeded, and those whose
\* fetch failed.
Fetched == {j \in 1..Len(outcomes) : outcomes[j] = "ok"}
Skipped == {i \in 1..Len(outcomes) : outcomes[i] = "fail"}

\* The skipped subscriptions whose directory is not also the directory of a
\* fetched one.
SkippedOnly == {i \in Skipped : \A j \in Fetched : keyDir(j) # keyDir(i)}

\* The file at p is not what it was when the run began.
Changed(p) == ~(p \in DOMAIN fs /\ p \in DOMAIN fs0 /\ fs[p] = fs0[p])

\* C4 as stated: a failed fetch does not abort the run; no file in the
\* directory of a skipped subscription is written or changed; and a run in
\* which no write failed ends with every fetched subscription written, normal
\* then lite, in configuration order.
SkipsAndWritesTheRest ==
    /\ pc = "fatal" => (idx <= Len(outcomes) /\ outcomes[idx] = "ok")
    /\ IsPrefix(wrote, ExpectedWrites(outcomes, 1))
    /\ pc \in {"done", "fatalMkdir"} =>
          (Len(outcomes) = Len(subs) /\ wrote = ExpectedWrites(outcomes, 1))
    /\ \A i \in Skipped :
          \A p \in (DOMAIN fs) \cup (DOMAIN fs0) : p[1] = keyDir(i) => ~Changed(p)

\* C4 as amended: a failed fetch does not abort the run: the run aborts only
\* in os.MkdirAll or in a write of a subscription that was fetched; a file is
\* written or changed only in the directory of a fetched subscription, so a
\* skipped subscription's files are as they were when the run began unless a
\* fetched subscription has the same sanitized directory; and unless
\* os.MkdirAll or a write fails, every fetched subscription gets its normal
\* and then its lite write, in configuration order.
FetchFailureSkips ==
    /\ pc \in {"fatal", "fatalMkdir"} => (idx <= Len(outcomes) /\ outcomes[idx] = "ok")
    /\ IsPrefix(wrote, ExpectedWrites(outcomes, 1))
    /\ pc = "done" => (Len(outcomes) = Len(subs) /\ wrote = ExpectedWrites(outcomes, 1))
    /\ \A p \in (DOMAIN fs) \cup (DOMAIN fs0) :
          Changed(p) => \E j \in Fetched : keyDir(j) = p[1]
    /\ \A i \in SkippedOnly :
          \A p \in (DOMAIN fs) \cup (DOMAIN fs0) : p[1] = keyDir(i) => ~Changed(p)

\* A run of three subscriptions over an earlier export has ended: one fetch
\* failed and that subscription's files are untouched, and the two other
\* subscriptions, one before and one after it, were written.
SkippedThenWritten ==
    /\ pc = "done" /\ fs0 # NoFiles
    /\ Len(outcomes) = 3 /\ outcomes[2] = "fail" /\ 2 \in SkippedOnly
    /\ wrote = <<<<1, "normal">>, <<1, "lite">>, <<3, "normal">>, <<3, "lite">>>>
    /\ \E p \in DOMAIN fs : Changed(p)

\* ---- C5 ----------------------------------------------------------------

\* C5: buildLiteTail returns the last min(N, len) elements of normal in
\* their order, with 100 for N when N <= 0, in an array of its own: normal
\* is untouched and the later sorting for the normal output leaves the tail
\* as it is.
TailIsLastN ==
    pc \in {"sort", "sorted"} =>
        LET size == IF tailN <= 0 THEN 100 ELSE tailN
            k == IF size < Len(arg) THEN size ELSE Len(arg)
        IN  /\ lite.n = k
            /\ View(heap, lite) = SubSeq(arg, Len(arg) - k + 1, Len(arg))
            /\ lite.arr # normal.arr
            /\ View(heap, normal) = arg

\* A list longer than 100 with N <= 0, after the sorting.
DefaultTailOfLongList ==
    pc = "sorted" /\ tailN <= 0 /\ Len(arg) > 100 /\ lite.n = 100

\* ---- C6 ----------------------------------------------------------------

FirstTrimmed(xs, v) ==
    CHOOSE k \in 1..Len(xs) :
        TrimSpace(xs[k]) = v /\ \A j \in 1..(k - 1) : TrimSpace(xs[j]) # v

\* C6: the output of dedupe has no two equal strings and no empty string,
\* holds exactly the distinct non-empty trimmed values of the input, and
\* lists them in the order of their first occurrence.
DedupeDistinctInOrder ==
    pc = "applied" =>
        /\ \A a, b \in 1..Len(res) : a # b => TrimSpace(res[a]) # TrimSpace(res[b])
        /\ \A a \in 1..Len(res) : res[a] # <<>>
        /\ {res[a] : a \in 1..Len(res)} = {TrimSpace(arg[k]) : k \in 1..Len(arg)} \ {<<>>}
        /\ \A a, b \in 1..Len(res) : a < b => FirstTrimmed(arg, res[a]) < FirstTrimmed(arg, res[b])

\* Two entries that differ only in surrounding blanks were merged.
MergedByTrim ==
    /\ pc = "applied" /\ Len(arg) = 3 /\ Len(res) = 2
    /\ arg[1] # arg[3] /\ TrimSpace(arg[1]) = TrimSpace(arg[3])

\* ---- C7 ----------------------------------------------------------------

\* C7 as stated: the written list is a sorted permutation of normal, normal
\* is unmodified, and decoding the payload and splitting it on \n gives the
\* written list back, for the empty list too.
RoundTripAlways ==
    wpc # "idle" =>
        /\ SameBag(View(heap, lines), arg) /\ NonDecreasing(View(heap, lines))
        /\ View(heap, normal) = arg
        /\ DecodeString(encoded).ok
        /\ Split(DecodeString(encoded).val, 10) = View(heap, lines)

\* C7 as amended: the written list is a sorted permutation of normal and
\* normal is unmodified; for a non-empty list, decoding the payload and
\* splitting it on \n gives the written list back; for the empty list the
\* payload is empty and splits into one empty string.
SortedRoundTrip ==
    wpc # "idle" =>
        LET written == View(heap, lines)
            dec == DecodeString(encoded)
        IN  /\ SameBag(written, arg) /\ NonDecreasing(written)
            /\ View(heap, normal) = arg
            /\ dec.ok
            /\ written # <<>> => Split(dec.val, 10) = written
            /\ written = <<>> => (encoded = <<>> /\ Split(dec.val, 10) = <<<<>>>>)
            /\ (wpc = "ret" /\ werr = "nil") => fs[path].data = encoded

\* An unsorted list of three was written in sorted order.
UnsortedListWritten ==
    /\ wpc = "ret" /\ werr = "nil"
    /\ Len(arg) = 3 /\ View(heap, lines) # arg
    /\ fs[path].data = encoded

\* ---- C8 ----------------------------------------------------------------

\* seg starts, case-insensitively, with the lowercase text pre.
StartsFolded(seg, pre) ==
    Len(seg) >= Len(pre) /\ \A k \in 1..Len(pre) : LowerByte(seg[k]) = pre[k]

KeptBy(seg, allowed) == \E sch \in allowed : StartsFolded(seg, sch \o SchemeSep)

\* The positions of the segments that are to be kept, in input order.
RECURSIVE KeptPositions(_, _, _)
KeptPositions(items, allowed, k) ==
    IF k > Len(items) THEN <<>>
    ELSE (IF KeptBy(items[k], allowed) THEN <<k>> ELSE <<>>)
         \o KeptPositions(items, allowed, k + 1)

\* C8: a segment is kept exactly when it starts, case-insensitively, with an
\* allowed scheme followed by "://"; a kept entry has the part before its
\* first "://" lowercased and the rest as in the input; the others are
\* dropped; the kept entries are in input order.
FilterKeepsAllowed ==
    pc = "applied" =>
        LET kept == KeptPositions(arg.items, AllowedSet(arg.schemes), 1)
        IN  /\ Len(res) = Len(kept)
            /\ \A j \in 1..Len(kept) :
                  LET in == arg.items[kept[j]]
                      sep == Index(in, SchemeSep)
                  IN  /\ Len(res[j]) = Len(in)
                      /\ \A q \in 1..Len(in) :
                            res[j][q] = IF q <= sep THEN LowerByte(in[q]) ELSE in[q]

\* One of two segments was dropped and the other kept with its scheme
\* lowercased and its mixed-case rest intact.
KeptWithLowerScheme ==
    /\ pc = "applied" /\ Len(arg.items) = 2 /\ Len(res) = 1
    /\ res[1] # arg.items[1] /\ res[1] # arg.items[2]
    /\ res[1] # ToLower(res[1])

\* ---- C9 ----------------------------------------------------------------

Base64Class == (65..90) \cup (97..122) \cup (48..57) \cup {43, 47, 61, 13, 10}

\* C9: for a payload whose trimmed content is not empty, tryDecodeIfBase64
\* returns the decoded bytes when the trimmed content is made of base64 and
\* line-break characters, decodes, and the decoded text holds vless://,
\* vmess:// or ss:// in any case; otherwise it returns the raw bytes.  The
\* payload aGVsbG8gd29ybGQ= comes back unchanged.
DecodesOnlyKnownLists ==
    (pc = "applied" /\ TrimSpace(arg) # <<>>) =>
        LET trim == TrimSpace(arg)
            dec == DecodeString(trim)
            looksLikeList ==
                \E m \in {B("vless://"), B("vmess://"), B("ss://")} : Contains(ToLower(dec.val), m)
            decodes == (\A k \in 1..Len(trim) : trim[k] \in Base64Class) /\ dec.ok /\ looksLikeList
        IN  /\ res = IF decodes THEN dec.val ELSE arg
            /\ arg = B("aGVsbG8gd29ybGQ=") => (res = arg /\ dec.ok /\ dec.val = B("hello world"))

\* The base64 of "hello world" went through the decoder.
HelloWorldPassed ==
    pc = "applied" /\ arg = B("aGVsbG8gd29ybGQ=") /\ res = arg

\* ---- C10 ---------------------------------------------------------------

\* C10: when writeBase64Atomic returns an error from its replace step for a
\* path that held a complete file before the call, the path still holds
\* that file.
FailedWriteKeepsPrevious ==
    (wpc = "ret" /\ werr \in {"rename", "retries"} /\ before # <<>>) =>
        (path \in DOMAIN fs /\ fs[path] = before[1])

=============================================================================
